---- MODULE Spec2Model ----
(***************************************************************************)
(* The ring-kernel particle detector of the Day 3 notebook                 *)
(* (src/GranImage_Day3_ScikitParticleFinding2.ipynb): kernel builders,     *)
(* image normalisation and the convolution of convcirc.                    *)
(*                                                                         *)
(* Numbers are exact rationals [n, d] (d > 0, lowest terms), with the      *)
(* three non-finite values numpy's float arithmetic produces on a division *)
(* by zero: nan = [0, 0], +inf = [1, 0], -inf = [-1, 0].  Rounding of the  *)
(* 64-bit floats is outside the model: every result stated here is a       *)
(* result of real arithmetic.                                              *)
(***************************************************************************)
EXTENDS Integers, Sequences, FiniteSets, TLC

VARIABLES
    pc,      \* the notebook statement executed last
    img,     \* the decoded blue channel, img_as_ubyte(img[:,:,2]): rows of integers
    image,   \* the notebook global `image`: rows of rationals
    R, w,    \* kernel radius and ring width passed to the kernel builders
    dkern, dx,   \* dkern, dx = disckernel(R)
    ckern, cx,   \* ckern, cx = circkernel(R, w)
    conv,    \* the notebook / convcirc local `conv`
    exc,     \* the exception raised by the last statement, "none" when it returned
    thresh,  \* convcirc's argument thresh
    max,     \* convcirc's local `max`: the peaks, a sequence of numpy indices <<x, y>>
    fitmax,  \* convcirc's local `fitmax`: the refined peaks, a sequence of <<x, y>>
    imageB,  \* a second image of the shape of `image`
    convB,   \* ndimage.convolve(imageB, ckern, ...)
    convAB,  \* ndimage.convolve(image + imageB, ckern, ...)
    threshold,   \* Day 2, cell 30: the mask `threshold`
    lastCell,    \* how many of the Day 3 code cells from cell 15 on have been run
    reruns,      \* how many times a cell already run was run again
    convcircDef, \* the definition the global name convcirc is bound to
    Rvals,       \* cell 22: the radii of the sweep
    numfound,    \* cell 22: the value recorded for each radius
    peak,        \* cell 24: the map's value at each peak
    maxS, maxL,  \* cells 20 and 27: the peaks found for the small and large radius
    fitmaxS, fitmaxL,    \* cell 30: the refined peaks for the two radii
    remainders   \* cell 30: the fractional parts of the refined coordinates

peakVars == <<thresh, max, fitmax>>
linVars == <<imageB, convB, convAB>>
nbVars == <<lastCell, reruns, convcircDef, Rvals, numfound, peak,
            maxS, maxL, fitmaxS, fitmaxL, remainders>>
vars == <<pc, img, image, R, w, dkern, dx, ckern, cx, conv, exc, peakVars, linVars, threshold,
          nbVars>>

(***************************************************************************)
(* Bounds of the model                                                     *)
(***************************************************************************)
MaxDen == 2      \* R and w are fractions n/d with d in 1..MaxDen
MaxRNum == 6     \* numerators of R go up to MaxRNum ...
MaxNegR == 2     \* ... and down to -MaxNegR (R <= 0 is an invalid radius)
MaxWNum == 6     \* numerators of w are 1..MaxWNum
NormDim == 3     \* the normaliser is run on NormDim x NormDim images
MaxPix == 2      \* pixel values are 0..MaxPix
ImgDim == 7      \* the detector pipeline is run on ImgDim x ImgDim images
LinDim == 2      \* linearity is tried on pairs of LinDim x LinDim images
MaxReruns == 2   \* a notebook run repeats at most MaxReruns cells

(***************************************************************************)
(* Rational arithmetic                                                     *)
(***************************************************************************)
Abs(n) == IF n < 0 THEN -n ELSE n
Sign(n) == IF n < 0 THEN -1 ELSE IF n > 0 THEN 1 ELSE 0

RECURSIVE GCD(_, _)
GCD(a, b) == IF b = 0 THEN a ELSE GCD(b, a % b)

\* the rational n/d; a zero denominator gives nan (0/0) or a signed infinity
Q(n, d) ==
    IF d = 0 THEN [n |-> Sign(n), d |-> 0]
    ELSE LET g == GCD(Abs(n), Abs(d))
         IN  [n |-> Sign(d) * (n \div g), d |-> Abs(d) \div g]

NaN == [n |-> 0, d |-> 0]
Zero == [n |-> 0, d |-> 1]
One == [n |-> 1, d |-> 1]
IsNaN(a) == a.n = 0 /\ a.d = 0
IsFinite(a) == a.d > 0

QNeg(a) == [n |-> -a.n, d |-> a.d]
QAdd(a, b) ==
    IF a.d = 0 /\ b.d = 0 THEN (IF a.n = b.n THEN a ELSE NaN)
    ELSE IF a.d = 0 THEN a
    ELSE IF b.d = 0 THEN b
    ELSE Q(a.n * b.d + b.n * a.d, a.d * b.d)
QSub(a, b) == QAdd(a, QNeg(b))
QMul(a, b) == Q(a.n * b.n, a.d * b.d)
QDiv(a, b) == Q(a.n * b.d, a.d * b.n)
QSq(a) == QMul(a, a)
\* a < b as floats compare: false when either side is nan
QLess(a, b) ==
    IF IsNaN(a) \/ IsNaN(b) THEN FALSE
    ELSE IF a.d = 0 /\ b.d = 0 THEN a.n < b.n
    ELSE a.n * b.d < b.n * a.d
QLeq(a, b) == ~IsNaN(a) /\ ~IsNaN(b) /\ ~QLess(b, a)
\* the larger of two floats as np.max folds them: nan wins
QMax(a, b) == IF IsNaN(a) \/ IsNaN(b) THEN NaN ELSE IF QLess(a, b) THEN b ELSE a
\* np.ceil of a finite rational, as an integer
Ceil(a) == -((-a.n) \div a.d)

(***************************************************************************)
(* Grids: a grid is a sequence of rows, a row a sequence of cells; the     *)
(* numpy index (x, y) is cell [x + 1][y + 1].                              *)
(***************************************************************************)
NRows(g) == Len(g)
NCols(g) == IF Len(g) = 0 THEN 0 ELSE Len(g[1])
Size(g) == NRows(g) * NCols(g)
Cells(g) == {p \in (1..NRows(g)) \X (1..NCols(g)) : TRUE}
MkGrid(h, wd, F(_, _)) == [i \in 1..h |-> [j \in 1..wd |-> F(i, j)]]

RECURSIVE SeqSum(_)
SeqSum(s) == IF Len(s) = 0 THEN Zero ELSE QAdd(s[1], SeqSum(Tail(s)))
RECURSIVE SeqMax(_)
SeqMax(s) == IF Len(s) = 1 THEN s[1] ELSE QMax(s[1], SeqMax(Tail(s)))

\* np.sum, np.mean and np.max of a grid (np.mean of an empty grid is nan)
GridSum(g) == SeqSum([i \in 1..NRows(g) |-> SeqSum(g[i])])
GridMean(g) == QDiv(GridSum(g), Q(Size(g), 1))
GridMax(g) == SeqMax([i \in 1..NRows(g) |-> SeqMax(g[i])])
\* grid - scalar and grid / scalar, cell by cell
GridMinus(g, s) == MkGrid(NRows(g), NCols(g), LAMBDA i, j : QSub(g[i][j], s))
GridOver(g, s) == MkGrid(NRows(g), NCols(g), LAMBDA i, j : QDiv(g[i][j], s))

(***************************************************************************)
(* Kernel builders: disckernel(R) and circkernel(R, w)                     *)
(***************************************************************************)
\* variant: the +0.5 padding left out
KdimOffByOne(r) == Ceil(QMul(Q(2, 1), r))
\* kdim = int(np.ceil(2*(float(R)+0.5)))
Kdim(r) == Ceil(QMul(Q(2, 1), QAdd(r, Q(1, 2))))

\* variant: c = kdim/2.0
CentreOffCentre(kdim) == Q(kdim, 2)
\* c = (kdim-1)/2.0
Centre(kdim) == Q(kdim - 1, 2)

\* (x-c)**2 + (y-c)**2 for the numpy index (x, y)
Dist2(x, y, c) == QAdd(QSq(QSub(Q(x, 1), c)), QSq(QSub(Q(y, 1), c)))

\* variant: <= in place of <
InDiscClosed(x, y, c, r) == QLeq(Dist2(x, y, c), QSq(r))
\* (x-c)**2 + (y-c)**2 < R**2
InDisc(x, y, c, r) == QLess(Dist2(x, y, c), QSq(r))

\* variant: <= and >= in place of < and >
InRingClosed(x, y, c, r, wd) ==
    /\ QLeq(Dist2(x, y, c), QSq(r))
    /\ QLeq(QSq(QSub(r, wd)), Dist2(x, y, c))
\* ((x-c)**2 + (y-c)**2 < R**2) & ((x-c)**2 + (y-c)**2 > (R-w)**2)
InRing(x, y, c, r, wd) ==
    /\ QLess(Dist2(x, y, c), QSq(r))
    /\ QLess(QSq(QSub(r, wd)), Dist2(x, y, c))

\* a boolean grid cast to float
BoolGrid(kdim, In(_, _)) ==
    MkGrid(kdim, kdim, LAMBDA i, j : IF In(i - 1, j - 1) THEN One ELSE Zero)

\* variant: the sum divided by the number of rows, not of cells
ZeroMeanWrongCount(mask) == GridMinus(mask, QDiv(GridSum(mask), Q(NRows(mask), 1)))
\* kernel - np.mean(kernel)
ZeroMean(mask) == GridMinus(mask, GridMean(mask))

\* np.indices((kdim, kdim)) and np.zeros((kdim, kdim)) raise ValueError on a
\* negative dimension; otherwise the builder returns (kernel, c)
disckernel(r) ==
    LET kdim == Kdim(r)
        c == Centre(kdim)
    IN  IF kdim < 0 THEN [exc |-> "ValueError", kernel |-> <<>>, c |-> c]
        ELSE [exc |-> "none",
              kernel |-> ZeroMean(BoolGrid(kdim, LAMBDA x, y : InDisc(x, y, c, r))),
              c |-> c]

circkernel(r, wd) ==
    LET kdim == Kdim(r)
        c == Centre(kdim)
    IN  IF kdim < 0 THEN [exc |-> "ValueError", kernel |-> <<>>, c |-> c]
        ELSE [exc |-> "none",
              kernel |-> ZeroMean(BoolGrid(kdim, LAMBDA x, y : InRing(x, y, c, r, wd))),
              c |-> c]

(***************************************************************************)
(* The kernel builders applied to bounded arguments                        *)
(***************************************************************************)
RArgs == {Q(n, d) : n \in (-MaxNegR)..MaxRNum, d \in 1..MaxDen}
WArgs == {Q(n, d) : n \in 1..MaxWNum, d \in 1..MaxDen}
NoGrid == <<>>
\* convcirc not called yet, no second image
NoPeaks == thresh = Zero /\ max = <<>> /\ fitmax = <<>>
NoLin == imageB = NoGrid /\ convB = NoGrid /\ convAB = NoGrid
\* no cell of the notebook run yet
NoNb ==
    /\ lastCell = 0 /\ reruns = 0 /\ convcircDef = "none"
    /\ Rvals = <<>> /\ numfound = <<>> /\ peak = <<>>
    /\ maxS = <<>> /\ maxL = <<>> /\ fitmaxS = <<>> /\ fitmaxL = <<>>
    /\ remainders = <<>>

InitKernel ==
    /\ pc = "start"
    /\ R \in RArgs
    /\ w \in WArgs
    /\ img = NoGrid /\ image = NoGrid /\ conv = NoGrid
    /\ dkern = NoGrid /\ dx = Zero
    /\ ckern = NoGrid /\ cx = Zero
    /\ exc = "none"
    /\ NoPeaks /\ NoLin /\ threshold = NoGrid /\ NoNb

\* dkern, dx = disckernel(R)
CallDisckernel ==
    /\ pc = "start"
    /\ LET ret == disckernel(R)
       IN  /\ exc' = ret.exc
           /\ dkern' = IF ret.exc = "none" THEN ret.kernel ELSE dkern
           /\ dx' = IF ret.exc = "none" THEN ret.c ELSE dx
    /\ pc' = "disckernel"
    /\ UNCHANGED <<img, image, R, w, ckern, cx, conv, peakVars, linVars, threshold, nbVars>>

\* ckern, cx = circkernel(R, w)
CallCirckernel ==
    /\ pc = "start"
    /\ LET ret == circkernel(R, w)
       IN  /\ exc' = ret.exc
           /\ ckern' = IF ret.exc = "none" THEN ret.kernel ELSE ckern
           /\ cx' = IF ret.exc = "none" THEN ret.c ELSE cx
    /\ pc' = "circkernel"
    /\ UNCHANGED <<img, image, R, w, dkern, dx, conv, peakVars, linVars, threshold, nbVars>>

NextKernel == CallDisckernel \/ CallCirckernel
SpecKernel == InitKernel /\ [][NextKernel]_vars

(***************************************************************************)
(* Image normalisation (cells 8 and 15)                                    *)
(***************************************************************************)
\* img_as_ubyte(img[:,:,2]).astype(float)
ToFloat(g) == MkGrid(NRows(g), NCols(g), LAMBDA i, j : Q(g[i][j], 1))

\* variant: division by the maximum absolute value
NormaliseAbs(g) ==
    LET centred == GridMinus(g, GridMean(g))
        mx == GridMax(centred)
        mn == GridMax(MkGrid(NRows(g), NCols(g), LAMBDA i, j : QNeg(centred[i][j])))
    IN  GridOver(centred, QMax(mx, mn))
\* variant: the mean is not subtracted
NormaliseNoMean(g) == GridOver(g, GridMax(g))
\* variant: division by the maximum taken before the mean is subtracted
NormaliseByRawMax(g) == GridOver(GridMinus(g, GridMean(g)), GridMax(g))
\* image = image - np.mean(image); image = image/np.max(image)
Normalise(g) ==
    LET centred == GridMinus(g, GridMean(g))
    IN  GridOver(centred, GridMax(centred))

\* variant: a footprint without its centre pixel
NeighboursNoCentre(g, i, j) ==
    {p \in {<<i - 1, j>>, <<i + 1, j>>, <<i, j - 1>>, <<i, j + 1>>} :
        p[1] \in 1..NRows(g) /\ p[2] \in 1..NCols(g)}
\* skimage.morphology.erosion(image) with the default footprint: the minimum
\* over a pixel and its 4-neighbours that lie inside the image
Neighbours(g, i, j) ==
    {p \in {<<i, j>>, <<i - 1, j>>, <<i + 1, j>>, <<i, j - 1>>, <<i, j + 1>>} :
        p[1] \in 1..NRows(g) /\ p[2] \in 1..NCols(g)}
Erosion(g) ==
    MkGrid(NRows(g), NCols(g), LAMBDA i, j :
        LET nb == Neighbours(g, i, j)
            lo == CHOOSE p \in nb : \A q \in nb : QLeq(g[p[1]][p[2]], g[q[1]][q[2]])
        IN  g[lo[1]][lo[2]])

\* image = image - erodedimage
EdgeImage(g) ==
    LET eroded == Erosion(g)
    IN  MkGrid(NRows(g), NCols(g), LAMBDA i, j : QSub(g[i][j], eroded[i][j]))

\* dim x dim images: a uniform background with up to two pixels of other values
SpotImages(dim, nspots) ==
    {[i \in 1..dim |-> [j \in 1..dim |->
        IF nspots >= 1 /\ <<i, j>> = p1 THEN v1
        ELSE IF nspots >= 2 /\ <<i, j>> = p2 THEN v2
        ELSE b]] :
        b \in 0..MaxPix, v1 \in 0..MaxPix, v2 \in 0..MaxPix,
        p1 \in (1..dim) \X (1..dim), p2 \in (1..dim) \X (1..dim)}

InitNorm ==
    /\ pc = "start"
    /\ img \in SpotImages(NormDim, 2)
    /\ image = NoGrid /\ conv = NoGrid
    /\ R = Zero /\ w = Zero
    /\ dkern = NoGrid /\ dx = Zero
    /\ ckern = NoGrid /\ cx = Zero
    /\ exc = "none"
    /\ NoPeaks /\ NoLin /\ threshold = NoGrid /\ NoNb

\* cell 8: read the image, set zero mean and max = 1
Cell8 ==
    /\ pc = "start"
    /\ image' = Normalise(ToFloat(img))
    /\ pc' = "cell8"
    /\ UNCHANGED <<img, R, w, dkern, dx, ckern, cx, conv, exc, peakVars, linVars, threshold, nbVars>>

\* cell 15: read the image, subtract its erosion, set zero mean and max = 1
Cell15 ==
    /\ pc = "start"
    /\ image' = Normalise(EdgeImage(ToFloat(img)))
    /\ pc' = "cell15"
    /\ UNCHANGED <<img, R, w, dkern, dx, ckern, cx, conv, exc, peakVars, linVars, threshold, nbVars>>

\* the two normalising statements run once more on the normalised image
NormaliseAgain ==
    /\ pc \in {"cell8", "cell15"}
    /\ image' = Normalise(image)
    /\ pc' = "renormalised"
    /\ UNCHANGED <<img, R, w, dkern, dx, ckern, cx, conv, exc, peakVars, linVars, threshold, nbVars>>

NextNorm == Cell8 \/ Cell15 \/ NormaliseAgain
SpecNorm == InitNorm /\ [][NextNorm]_vars

(***************************************************************************)
(* Day 2, cell 30: "Find all regions above the mean"                       *)
(***************************************************************************)
\* threshold = img > 0.8*img.mean()
Day2Cell30 ==
    /\ pc = "start"
    /\ threshold' = MkGrid(NRows(img), NCols(img), LAMBDA i, j :
                        QLess(QMul(Q(4, 5), GridMean(ToFloat(img))), Q(img[i][j], 1)))
    /\ pc' = "day2cell30"
    /\ UNCHANGED <<img, image, R, w, dkern, dx, ckern, cx, conv, exc, peakVars, linVars, nbVars>>

NextDay2 == Day2Cell30
SpecDay2 == InitNorm /\ [][NextDay2]_vars

(***************************************************************************)
(* convcirc(image, R, w, thresh), statement by statement                   *)
(***************************************************************************)
\* variant: mode='nearest', the border pixel repeated outside the image
AtNearest(g, x, y) ==
    LET cx0 == IF x < 0 THEN 0 ELSE IF x > NRows(g) - 1 THEN NRows(g) - 1 ELSE x
        cy0 == IF y < 0 THEN 0 ELSE IF y > NCols(g) - 1 THEN NCols(g) - 1 ELSE y
    IN  g[cx0 + 1][cy0 + 1]
\* variant: cval=1.0
AtCvalOne(g, x, y) ==
    IF x \in 0..(NRows(g) - 1) /\ y \in 0..(NCols(g) - 1) THEN g[x + 1][y + 1] ELSE One
\* the image value at the numpy index (x, y); mode='constant', cval=0.0 gives
\* 0.0 outside the image
At(g, x, y) ==
    IF x \in 0..(NRows(g) - 1) /\ y \in 0..(NCols(g) - 1) THEN g[x + 1][y + 1] ELSE Zero

RECURSIVE SumFrom(_, _)
SumFrom(s, i) == IF i > Len(s) THEN Zero ELSE QAdd(s[i], SumFrom(s, i + 1))

\* ndimage.convolve(image, ckern, mode='constant', cval=0.0): the weights are
\* flipped and anchored at index kdim // 2 on each axis, so
\*   out(x, y) = sum over taps (a, b) of ckern(a, b) * image(x + kdim//2 - a, y + kdim//2 - b)
Convolve(g, k) ==
    LET kd == NRows(k)
        o == kd \div 2
    IN  MkGrid(NRows(g), NCols(g), LAMBDA i, j :
            SumFrom([a \in 1..kd |->
                        SumFrom([b \in 1..kd |->
                                    QMul(k[a][b],
                                         At(g, (i - 1) + o - (a - 1), (j - 1) + o - (b - 1)))],
                                1)],
                    1))

\* radii and ring widths the detector is run with (the notebook's 19.5, 20.0,
\* 29.0 and 1.5, scaled to the model's image size; the largest radius gives a
\* kernel wider than the image)
PipeR == {Q(3, 2), Q(2, 1), Q(5, 2), Q(7, 2)}
PipeW == {Q(3, 2)}

\* the images the detector is run on: two grey levels, as the notebook's white
\* disks on black (cell 15 and the normalisation remove level and scale)
PipeImages ==
    {[i \in 1..ImgDim |-> [j \in 1..ImgDim |-> IF <<i, j>> = p1 THEN v1 ELSE b]] :
        b \in {0, MaxPix}, v1 \in {0, MaxPix}, p1 \in (1..ImgDim) \X (1..ImgDim)}

Init ==
    /\ pc = "start"
    /\ img \in PipeImages
    /\ R \in PipeR
    /\ w \in PipeW
    /\ image = NoGrid /\ conv = NoGrid
    /\ dkern = NoGrid /\ dx = Zero
    /\ ckern = NoGrid /\ cx = Zero
    /\ exc = "none"
    /\ NoPeaks /\ NoLin /\ threshold = NoGrid /\ NoNb

\* ckern, x = circkernel(R, w)
Line512 ==
    /\ pc = "cell15"
    /\ LET ret == circkernel(R, w)
       IN  /\ exc' = ret.exc
           /\ ckern' = IF ret.exc = "none" THEN ret.kernel ELSE ckern
           /\ cx' = IF ret.exc = "none" THEN ret.c ELSE cx
           /\ pc' = IF ret.exc = "none" THEN "line512" ELSE "raised"
    /\ UNCHANGED <<img, image, R, w, dkern, dx, conv, peakVars, linVars, threshold, nbVars>>

\* variant: conv = ndimage.convolve(image, ckern, mode='constant', cval=0.0,
\* output=image), which writes the map into the caller's array
Line513InPlace ==
    /\ pc = "line512"
    /\ conv' = Convolve(image, ckern)
    /\ image' = conv'
    /\ pc' = "line513"
    /\ UNCHANGED <<img, R, w, dkern, dx, ckern, cx, exc, peakVars, linVars, threshold, nbVars>>

\* conv = ndimage.convolve(image, ckern, mode='constant', cval=0.0)
Line513 ==
    /\ pc = "line512"
    /\ conv' = Convolve(image, ckern)
    /\ pc' = "line513"
    /\ UNCHANGED <<img, image, R, w, dkern, dx, ckern, cx, exc, peakVars, linVars, threshold, nbVars>>

\* the magnitude of a float
QAbs(a) == [n |-> Abs(a.n), d |-> a.d]
\* variant: conv = conv/np.max(np.abs(conv))
Line514ByMaxAbs ==
    /\ pc = "line513"
    /\ conv' = GridOver(conv, GridMax(MkGrid(NRows(conv), NCols(conv),
                                             LAMBDA i, j : QAbs(conv[i][j]))))
    /\ pc' = "line514"
    /\ UNCHANGED <<img, image, R, w, dkern, dx, ckern, cx, exc, peakVars, linVars, threshold, nbVars>>
\* variant: conv = conv/(2*np.max(conv))
Line514HalfScale ==
    /\ pc = "line513"
    /\ conv' = GridOver(conv, QMul(Q(2, 1), GridMax(conv)))
    /\ pc' = "line514"
    /\ UNCHANGED <<img, image, R, w, dkern, dx, ckern, cx, exc, peakVars, linVars, threshold, nbVars>>
\* conv = conv/np.max(conv)
Line514 ==
    /\ pc = "line513"
    /\ conv' = GridOver(conv, GridMax(conv))
    /\ pc' = "line514"
    /\ UNCHANGED <<img, image, R, w, dkern, dx, ckern, cx, exc, peakVars, linVars, threshold, nbVars>>

(***************************************************************************)
(* skimage.feature.peak_local_max(conv, min_distance, threshold_abs)       *)
(***************************************************************************)
\* a == b as floats compare: false when either side is nan
QEq(a, b) == ~IsNaN(a) /\ ~IsNaN(b) /\ a = b

\* min_distance=int(np.ceil(R))
MinDistance(r) == Ceil(r)

\* the numpy indices of a grid, and the value at one
Indices(g) == (0..(NRows(g) - 1)) \X (0..(NCols(g) - 1))
Val(g, p) == g[p[1] + 1][p[2] + 1]

\* the distance of two indices under p_norm=inf
Cheb(p, q) ==
    LET dx0 == Abs(p[1] - q[1])
        dy0 == Abs(p[2] - q[2])
    IN  IF dx0 > dy0 THEN dx0 ELSE dy0

\* ndi.maximum_filter(image, footprint=ones((2*md+1, 2*md+1)), mode='nearest')
\* at index p: mode='nearest' repeats border pixels, so the maximum is over the
\* part of the window that lies inside the image
MaximumFilter(g, p, md) ==
    LET x0 == IF p[1] - md < 0 THEN 0 ELSE p[1] - md
        x1 == IF p[1] + md > NRows(g) - 1 THEN NRows(g) - 1 ELSE p[1] + md
        y0 == IF p[2] - md < 0 THEN 0 ELSE p[2] - md
        y1 == IF p[2] + md > NCols(g) - 1 THEN NCols(g) - 1 ELSE p[2] + md
    IN  SeqMax([i \in 1..(x1 - x0 + 1) |->
                   SeqMax([j \in 1..(y1 - y0 + 1) |-> g[x0 + i][y0 + j]])])

\* variant: image < threshold
AboveThresholdReversed(a, t) == QLess(a, t)
\* image > threshold
AboveThreshold(a, t) == QLess(t, a)

\* _get_peak_mask(image, footprint, threshold): the indices where the mask is set
PeakMask(g, md, t) ==
    IF md = 0 \/ Size(g) = 1
    THEN {p \in Indices(g) : AboveThreshold(Val(g, p), t)}
    ELSE LET out == {p \in Indices(g) : QEq(Val(g, p), MaximumFilter(g, p, md))}
         IN  \* no peak for a trivial image
             IF out = Indices(g) THEN {}
             ELSE {p \in out : AboveThreshold(Val(g, p), t)}

\* variant: exclude_border=False
ExcludeBorderOff(g, mask, bw) == mask
\* _exclude_border(mask, border_width) with exclude_border=True: a border of
\* width min_distance is cleared on both ends of both axes
ExcludeBorder(g, mask, bw) ==
    {p \in mask : /\ p[1] >= bw /\ p[1] <= NRows(g) - 1 - bw
                  /\ p[2] >= bw /\ p[2] <= NCols(g) - 1 - bw}

\* np.nonzero(mask) lists indices row by row
RowMajorBefore(p, q) == p[1] < q[1] \/ (p[1] = q[1] /\ p[2] < q[2])

\* coord = np.transpose(np.nonzero(mask))[np.argsort(-intensities, kind="stable")]:
\* by descending intensity, equal intensities in row-major order
SortByIntensity(g, mask) ==
    LET Before(p, q) == \/ QLess(Val(g, q), Val(g, p))
                        \/ (Val(g, q) = Val(g, p) /\ RowMajorBefore(p, q))
        Rank(p) == 1 + Cardinality({q \in mask : Before(q, p)})
    IN  [i \in 1..Cardinality(mask) |-> CHOOSE p \in mask : Rank(p) = i]

\* candidates = [c for c, d in zip(candidates, dist) if d < spacing]
TooClose(p, q, spacing) == Cheb(p, q) < spacing

\* ensure_spacing(coord, spacing=min_distance, p_norm=inf): going down the
\* list, a point that was not rejected is kept and rejects every point closer
\* than `spacing` to it
RECURSIVE EnsureSpacingFrom(_, _, _, _)
EnsureSpacingFrom(coord, i, kept, spacing) ==
    IF i > Len(coord) THEN kept
    ELSE IF \E j \in 1..Len(kept) : TooClose(kept[j], coord[i], spacing)
         THEN EnsureSpacingFrom(coord, i + 1, kept, spacing)
         ELSE EnsureSpacingFrom(coord, i + 1, Append(kept, coord[i]), spacing)
\* variant: the candidates are returned without thinning
EnsureSpacingOff(coord, spacing) == coord
EnsureSpacing(coord, spacing) == EnsureSpacingFrom(coord, 1, <<>>, spacing)

\* peak_local_max(image, min_distance, threshold_abs)
PeakLocalMax(g, md, t) ==
    EnsureSpacing(SortByIntensity(g, ExcludeBorder(g, PeakMask(g, md, t), md)), md)

\* thresholds the detector is run with (0.55 is the notebook's)
PipeT == {Q(1, 4), Q(11, 20), One}

\* max = peak_local_max(conv, min_distance=int(np.ceil(R)), threshold_abs = thresh);
\* the argument thresh is first read here
Line515 ==
    /\ pc = "line514"
    /\ \E t \in PipeT :
          /\ thresh' = t
          /\ max' = PeakLocalMax(conv, MinDistance(R), t)
    /\ pc' = "line515"
    /\ UNCHANGED <<img, image, R, w, dkern, dx, ckern, cx, conv, exc, fitmax, linVars, threshold, nbVars>>

(***************************************************************************)
(* convcirc lines 516-527: sub-pixel refinement of the peaks               *)
(***************************************************************************)
\* p = 2 (the half-width of the refinement window)
pwin == 2

\* variant: the copy holds every peak twice
CopyAsFloatTwice(peaks) ==
    [i \in 1..(2 * Len(peaks)) |->
        LET pk == peaks[((i - 1) % Len(peaks)) + 1]
        IN  <<Q(pk[1], 1), Q(pk[2], 1)>>]
\* fitmax = np.copy(max.astype(float))
CopyAsFloat(peaks) == [i \in 1..Len(peaks) |-> <<Q(peaks[i][1], 1), Q(peaks[i][2], 1)>>]

\* a[start:stop] for a 1-D array a: a negative bound counts from the end, and
\* both bounds are clipped to the array
SliceBound(b, n) == IF b < 0 THEN (IF b + n < 0 THEN 0 ELSE b + n) ELSE IF b > n THEN n ELSE b
PySlice(a, start, stop) ==
    LET lo == SliceBound(start, Len(a))
        hi == SliceBound(stop, Len(a))
    IN  [k \in 1..(IF hi > lo THEN hi - lo ELSE 0) |-> a[lo + k]]

\* conv[:, y0] and conv[x0, :]
Column(g, y0) == [i \in 1..NRows(g) |-> g[i][y0 + 1]]
Row(g, x0) == g[x0 + 1]

\* np.dot(x0+prange, window) for prange = np.arange(-p,p+1)
Dot(x0, window) == SeqSum([k \in 1..Len(window) |-> QMul(Q(x0 - pwin + k - 1, 1), window[k])])

\* variant: np.dot(prange, window), the offset x0 left out
CentroidNoOffset(x0, window) == QDiv(Dot(0, window), SeqSum(window))
\* np.sum(np.dot(x0+prange, window))/np.sum(window)
Centroid(x0, window) == QDiv(Dot(x0, window), SeqSum(window))

\* the body of the loop for one peak: np.dot raises ValueError when the window
\* is not 2p+1 long
Refine(g, pk) ==
    LET x0 == pk[1]
        y0 == pk[2]
        wx == PySlice(Column(g, y0), x0 - pwin, x0 + pwin + 1)
        wy == PySlice(Row(g, x0), y0 - pwin, y0 + pwin + 1)
    IN  IF Len(wx) # 2 * pwin + 1 \/ Len(wy) # 2 * pwin + 1
        THEN [exc |-> "ValueError", x |-> NaN, y |-> NaN]
        ELSE [exc |-> "none", x |-> Centroid(x0, wx), y |-> Centroid(y0, wy)]

\* variant: an empty peak list is an error
LoopRaisesOnEmpty(rs) == Len(rs) = 0 \/ \E i \in 1..Len(rs) : rs[i].exc # "none"
\* for i in range(max.shape[0]): some pass of the loop raises
LoopRaises(rs) == \E i \in 1..Len(rs) : rs[i].exc # "none"

\* fitmax = np.copy(max.astype(float)); p = 2; prange = ...; the loop; return (fitmax)
Line527 ==
    /\ pc = "line515"
    /\ LET fm0 == CopyAsFloat(max)
           rs == [i \in 1..Len(max) |-> Refine(conv, max[i])]
       IN  IF LoopRaises(rs)
           THEN /\ exc' = "ValueError"
                /\ pc' = "raised"
                /\ fitmax' = fitmax
           ELSE /\ exc' = exc
                /\ pc' = "line527"
                /\ fitmax' = [i \in 1..Len(fm0) |->
                                  IF i <= Len(rs) THEN <<rs[i].x, rs[i].y>> ELSE fm0[i]]
    /\ UNCHANGED <<img, image, R, w, dkern, dx, ckern, cx, conv, thresh, max, linVars, threshold, nbVars>>

Next == Cell15 \/ Line512 \/ Line513 \/ Line514 \/ Line515 \/ Line527
Spec == Init /\ [][Next]_vars

(***************************************************************************)
(* Lines 512-514 applied to two images and to their sum                    *)
(***************************************************************************)
\* a + b, cell by cell
GridPlus(a, b) == MkGrid(NRows(a), NCols(a), LAMBDA i, j : QAdd(a[i][j], b[i][j]))

\* pairs of images of one shape; the second has a zero in its first and in its
\* last pixel
LinImages == {ToFloat(g) : g \in SpotImages(LinDim, 1)}
LinImagesB == {g \in LinImages : g[1][1] = Zero /\ g[LinDim][LinDim] = Zero}
LinR == {Q(2, 1)}

InitLin ==
    /\ pc = "cell15"
    /\ img = NoGrid
    /\ image \in LinImages
    /\ imageB \in LinImagesB
    /\ R \in LinR
    /\ w \in PipeW
    /\ conv = NoGrid /\ convB = NoGrid /\ convAB = NoGrid
    /\ dkern = NoGrid /\ dx = Zero
    /\ ckern = NoGrid /\ cx = Zero
    /\ exc = "none"
    /\ NoPeaks /\ threshold = NoGrid /\ NoNb

\* conv = ndimage.convolve(image, ckern, mode='constant', cval=0.0) for image,
\* for imageB and for image + imageB
Lin513 ==
    /\ pc = "line512"
    /\ conv' = Convolve(image, ckern)
    /\ convB' = Convolve(imageB, ckern)
    /\ convAB' = Convolve(GridPlus(image, imageB), ckern)
    /\ pc' = "lin513"
    /\ UNCHANGED <<img, image, imageB, R, w, dkern, dx, ckern, cx, exc, peakVars, threshold, nbVars>>

\* conv = conv/np.max(conv) for each of the three maps
Lin514 ==
    /\ pc = "lin513"
    /\ conv' = GridOver(conv, GridMax(conv))
    /\ convB' = GridOver(convB, GridMax(convB))
    /\ convAB' = GridOver(convAB, GridMax(convAB))
    /\ pc' = "lin514"
    /\ UNCHANGED <<img, image, imageB, R, w, dkern, dx, ckern, cx, exc, peakVars, threshold, nbVars>>

NextLin == Line512 \/ Lin513 \/ Lin514
SpecLin == InitLin /\ [][NextLin]_vars

(***************************************************************************)
(* Claims about the kernel builders (checked under SpecKernel)             *)
(***************************************************************************)
\* the argument ranges the kernel builder is specified for
ValidR == QLess(Zero, R)
ValidRW == ValidR /\ QLess(Zero, w) /\ QLeq(w, R)
HasCell(g, P(_)) == \E p \in Cells(g) : P(g[p[1]][p[2]])
IsPositive(a) == QLess(Zero, a)
IsNegative(a) == QLess(a, Zero)

\* C1: for every valid (R, w) the grid returned by circkernel(R, w) sums to
\* zero, and so does the grid returned by disckernel(R).
C1_KernelZeroMean ==
    /\ (pc = "circkernel" /\ ValidRW) => GridSum(ckern) = Zero
    /\ (pc = "disckernel" /\ ValidR) => GridSum(dkern) = Zero

\* a valid ring kernel with cells inside and outside the ring
C1_Witness ==
    /\ pc = "circkernel" /\ ValidRW
    /\ HasCell(ckern, IsPositive) /\ HasCell(ckern, IsNegative)
    /\ GridSum(ckern) = Zero

\* 4 * ((i-c)^2 + (j-c)^2) for the numpy index (i, j) of a K x K grid, c = (K-1)/2
FourDist2(K, i, j) == (2 * i - (K - 1)) * (2 * i - (K - 1)) + (2 * j - (K - 1)) * (2 * j - (K - 1))
\* (i-c)^2 + (j-c)^2 < R^2 and (i-c)^2 + (j-c)^2 > (R-w)^2, in integers
StrictlyInRing(K, i, j) ==
    /\ R.d * R.d * FourDist2(K, i, j) < 4 * R.n * R.n
    /\ (R.d * w.d) * (R.d * w.d) * FourDist2(K, i, j)
          > 4 * (R.n * w.d - w.n * R.d) * (R.n * w.d - w.n * R.d)
RingCount(K) ==
    Cardinality({p \in (0..(K - 1)) \X (0..(K - 1)) : StrictlyInRing(K, p[1], p[2])})

\* C2: each cell (i, j) of the ring kernel holds 1 - mean exactly when
\* (i-c)^2 + (j-c)^2 < R^2 and (i-c)^2 + (j-c)^2 > (R-w)^2, both strict, and
\* -mean otherwise, where mean is the fraction of cells inside the ring.
C2_RingMembership ==
    (pc = "circkernel" /\ ValidRW) =>
        LET K == NRows(ckern)
            n == RingCount(K)
        IN  \A i, j \in 0..(K - 1) :
                ckern[i + 1][j + 1] =
                    IF StrictlyInRing(K, i, j) THEN Q(K * K - n, K * K) ELSE Q(-n, K * K)

\* a valid ring with a cell lying exactly on the outer circle (and so outside)
C2_Witness ==
    /\ pc = "circkernel" /\ ValidRW
    /\ LET K == NRows(ckern)
       IN  /\ RingCount(K) > 0
           /\ \E i, j \in 0..(K - 1) :
                 /\ R.d * R.d * FourDist2(K, i, j) = 4 * R.n * R.n
                 /\ IsNegative(ckern[i + 1][j + 1])

KernelBuilt == pc \in {"circkernel", "disckernel"} /\ exc = "none"
TheKernel == IF pc = "circkernel" THEN ckern ELSE dkern
IsSquare(k) == \A i \in 1..Len(k) : Len(k[i]) = Len(k)
\* K = ceil(2*(R+0.5)): the least integer K with K >= 2R + 1
IsCeilOfTwoRPlusOne(K) ==
    /\ K * R.d >= 2 * R.n + R.d
    /\ (K - 1) * R.d < 2 * R.n + R.d
\* ceil(2R) is even
CeilTwoRIsEven(K) ==
    \E m \in 0..K : m % 2 = 0 /\ m * R.d >= 2 * R.n /\ (m - 1) * R.d < 2 * R.n

\* C3 as stated: for every valid R the kernel is a square grid of dimension
\* K = ceil(2*(R+0.5)) and K is odd.
C3_OddDimension ==
    (KernelBuilt /\ ValidR) =>
        /\ IsSquare(TheKernel)
        /\ IsCeilOfTwoRPlusOne(NRows(TheKernel))
        /\ NRows(TheKernel) % 2 = 1

\* C3 amended: for every valid R the kernel is a square grid of dimension
\* K = ceil(2*(R+0.5)); K is odd exactly when ceil(2R) is even, and even
\* otherwise.
C3_Dimension ==
    (KernelBuilt /\ ValidR) =>
        /\ IsSquare(TheKernel)
        /\ IsCeilOfTwoRPlusOne(NRows(TheKernel))
        /\ (NRows(TheKernel) % 2 = 1 <=> CeilTwoRIsEven(NRows(TheKernel)))

\* a valid half-integer radius, whose kernel has an even dimension
C3_Witness ==
    /\ KernelBuilt /\ ValidR
    /\ R.d = 2
    /\ NRows(TheKernel) >= 4
    /\ NRows(TheKernel) % 2 = 0

\* C4: for every valid (R, w) the ring kernel is unchanged by a 90-degree
\* rotation of the grid and by a mirror flip along either axis.
C4_KernelSymmetry ==
    (pc = "circkernel" /\ ValidRW) =>
        LET K == NRows(ckern)
        IN  \A i, j \in 1..K :
                /\ ckern[i][j] = ckern[j][K + 1 - i]
                /\ ckern[i][j] = ckern[K + 1 - i][j]
                /\ ckern[i][j] = ckern[i][K + 1 - j]

\* a valid ring kernel that is not constant, on a grid of dimension 3 or more
C4_Witness ==
    /\ pc = "circkernel" /\ ValidRW
    /\ NRows(ckern) >= 3
    /\ HasCell(ckern, IsPositive)
    /\ ckern[1][1] # ckern[1][2] \/ ckern[1][2] # ckern[2][2]

\* C5: a call of the kernel builder with R <= 0 or with w > R yields an
\* InvalidParameter error and no kernel is returned (any exception raised by
\* the call is taken for the rejection).
C5_RejectsInvalid ==
    (pc = "circkernel" /\ (QLeq(R, Zero) \/ QLess(R, w))) =>
        /\ exc # "none"
        /\ ckern = NoGrid

(***************************************************************************)
(* Claims about the normaliser (checked under SpecNorm)                    *)
(***************************************************************************)
NonConstant(g) == \E p, q \in Cells(g) : g[p[1]][p[2]] # g[q[1]][q[2]]
Normalised == pc \in {"cell8", "cell15"}
\* the image the two normalising statements were applied to
Raw == IF pc = "cell8" THEN ToFloat(img) ELSE EdgeImage(ToFloat(img))
BelowMinusOne(a) == QLess(QNeg(One), a) = FALSE /\ a # QNeg(One) /\ ~IsNaN(a)

\* C6: for every image that is not constant, the normalised image has mean
\* exactly 0 and maximum value exactly 1.
C6_ZeroMeanUnitMax ==
    (Normalised /\ NonConstant(img)) =>
        /\ GridMean(image) = Zero
        /\ GridMax(image) = One

\* a normalised, non-constant image with pixels on both sides of zero
C6_Witness ==
    /\ pc = "cell8" /\ NonConstant(img)
    /\ HasCell(image, IsNegative)
    /\ HasCell(image, LAMBDA a : a = One)

\* C7 as stated: every pixel of the normalised image lies in [-1, 1] for every
\* non-degenerate input image.
C7_PixelsWithinUnit ==
    (Normalised /\ NonConstant(img)) =>
        \A p \in Cells(image) :
            /\ QLeq(QNeg(One), image[p[1]][p[2]])
            /\ QLeq(image[p[1]][p[2]], One)

\* C7 amended: normalisation divides the mean-subtracted image by its maximum
\* value (not its maximum absolute value), so every pixel of the normalised
\* image is at most 1 for every non-degenerate input image.
C7_DividedByMax ==
    (Normalised /\ NonConstant(img)) =>
        LET mean == GridMean(Raw)
            top == QSub(GridMax(Raw), mean)
        IN  \A p \in Cells(image) :
                /\ QMul(image[p[1]][p[2]], top) = QSub(Raw[p[1]][p[2]], mean)
                /\ QLeq(image[p[1]][p[2]], One)

\* a normalised, non-constant image with a pixel below -1
C7_Witness ==
    /\ Normalised /\ NonConstant(img)
    /\ HasCell(image, BelowMinusOne)

\* C8: normalising an image with zero variance fails with EmptyImageError
\* instead of dividing by zero and producing an image (any exception raised by
\* the cell is taken for the failure).
C8_ConstantImageRejected ==
    (Normalised /\ ~NonConstant(img)) =>
        /\ exc # "none"
        /\ image = NoGrid

\* C9: for every non-degenerate image, normalising the already normalised
\* image gives the same image.
C9_Idempotent ==
    [][(pc' = "renormalised" /\ NonConstant(img)) => image' = image]_vars

\* a non-constant image with three pixel values, normalised twice
C9_Witness ==
    /\ pc = "renormalised" /\ NonConstant(img)
    /\ \E p, q, r \in Cells(image) :
          /\ image[p[1]][p[2]] # image[q[1]][q[2]]
          /\ image[q[1]][q[2]] # image[r[1]][r[2]]
          /\ image[p[1]][p[2]] # image[r[1]][r[2]]

(***************************************************************************)
(* Claims about the correlator (checked under Spec)                        *)
(***************************************************************************)
\* the sum over the kernel taps (a, b) of ckern(a, b) times the image value
\* under that tap when the kernel's centre tap lies on pixel (x, y); a tap
\* outside the image contributes zero.  The centre tap is (K-1) div 2.
CorrelationAt(x, y) ==
    LET K == NRows(ckern)
        o == (K - 1) \div 2
    IN  SumFrom([a \in 1..K |->
                    SumFrom([b \in 1..K |->
                                LET u == x + (a - 1) - o
                                    v == y + (b - 1) - o
                                IN  IF u >= 0 /\ u < NRows(image) /\ v >= 0 /\ v < NCols(image)
                                    THEN QMul(ckern[a][b], image[u + 1][v + 1])
                                    ELSE Zero],
                            1)],
                1)

\* C10: the correlation map has the shape of the input image, and before the
\* normalising post-step its value at each pixel is the sum over all kernel
\* taps of kernel value times image value at the corresponding offset with the
\* kernel centred on that pixel, taps outside the image contributing zero.
C10_CorrelationMap ==
    pc = "line513" =>
        /\ NRows(conv) = NRows(image)
        /\ \A i \in 1..NRows(conv) : Len(conv[i]) = Len(image[i])
        /\ \A p \in Cells(conv) : conv[p[1]][p[2]] = CorrelationAt(p[1] - 1, p[2] - 1)

\* a finite correlation map that is non-zero at a corner pixel, where most taps
\* fall outside the image
C10_Witness ==
    /\ pc = "line513"
    /\ IsFinite(conv[1][1]) /\ conv[1][1] # Zero
    /\ HasCell(conv, IsPositive) /\ HasCell(conv, IsNegative)

\* the maximum of the map as line 513 leaves it, before the post-step
RawMax == GridMax(Convolve(image, ckern))
WithinUnit(a) == QLeq(QNeg(One), a) /\ QLeq(a, One)

\* C11 (as stated): after the post-step (division of the map by its own maximum)
\* the map's maximum absolute value is 1: the largest cell equals 1 and no cell
\* has magnitude above 1.
C11_MaxAbsIsOne ==
    pc = "line514" =>
        /\ GridMax(conv) = One
        /\ \A p \in Cells(conv) : WithinUnit(conv[p[1]][p[2]])

\* C11 (amended): when the map's maximum before the post-step is positive, the
\* post-step leaves the largest cell equal to 1 and no cell above 1; cells are
\* not bounded below.
C11_MaxIsOne ==
    [][pc' = "line514" /\ QLess(Zero, GridMax(conv)) =>
           /\ GridMax(conv') = One
           /\ \A q \in Cells(conv') : QLeq(conv'[q[1]][q[2]], One)]_vars

\* a map with positive maximum that the post-step leaves with a cell below -1
C11_Witness ==
    /\ pc = "line514"
    /\ QLess(Zero, RawMax)
    /\ HasCell(conv, BelowMinusOne)

\* C13: correlating with a kernel whose dimension exceeds the image's dimension
\* fails with an error rather than returning a correlation map.
C13_KernelTooLarge ==
    pc = "line513" /\ NRows(ckern) > NRows(image) => exc # "none" /\ conv = NoGrid

(***************************************************************************)
(* Claims about peak detection and refinement (checked under Spec)         *)
(***************************************************************************)
Peaks == {max[i] : i \in 1..Len(max)}
\* p holds the largest value of its min_distance neighbourhood
IsNeighbourhoodMax(p) ==
    \A q \in Indices(conv) :
        Cheb(p, q) <= MinDistance(R) => QLeq(Val(conv, q), Val(conv, p))
\* p is outside the border that exclude_border clears
InInterior(p) ==
    /\ p[1] >= MinDistance(R) /\ p[1] <= NRows(conv) - 1 - MinDistance(R)
    /\ p[2] >= MinDistance(R) /\ p[2] <= NCols(conv) - 1 - MinDistance(R)
\* the map is not flat
HasTwoValues(g) == \E p, q \in Indices(g) : Val(g, p) # Val(g, q)
\* p was dropped only because a returned peak at least as high is closer than
\* min_distance
Suppressed(p) ==
    \E q \in Peaks : Cheb(p, q) < MinDistance(R) /\ QLeq(Val(conv, p), Val(conv, q))

\* C14: a pixel of the correlation map is accepted as a candidate peak when it
\* is the maximum within its min_distance neighbourhood and its value is >=
\* threshold (a local maximum equal to the threshold is accepted), and every
\* returned peak has a value >= threshold.  Pixels in the excluded border, flat
\* maps and candidates suppressed by a nearby returned peak are left aside.
C14_AcceptedAtThreshold ==
    pc = "line515" /\ HasTwoValues(conv) =>
        /\ \A p \in Indices(conv) :
              InInterior(p) /\ IsNeighbourhoodMax(p) /\ QLeq(thresh, Val(conv, p))
                  => p \in Peaks \/ Suppressed(p)
        /\ \A p \in Peaks : QLeq(thresh, Val(conv, p))

\* the squared Euclidean distance of two indices
Dist2Between(p, q) == (p[1] - q[1]) * (p[1] - q[1]) + (p[2] - q[2]) * (p[2] - q[2])
\* md is the smallest integer that is not below r
IsCeilOf(md, r) == QLeq(r, Q(md, 1)) /\ QLess(Q(md - 1, 1), r)

CompareT == PipeT \cup {Zero}
\* the number of peaks convcirc returns for the same image, R and w at threshold t
CountAt(t) == Len(PeakLocalMax(conv, MinDistance(R), t))

QDist(a, b) == QAbs(QSub(a, b))
\* C17: for every peak returned by the refining convcirc, on each axis the
\* refined coordinate differs from the integer peak coordinate by at most the
\* window half-size p = 2.
C17_RefinementBounded ==
    pc = "line527" =>
        \A i \in 1..Len(fitmax) :
            /\ QLeq(QDist(fitmax[i][1], Q(max[i][1], 1)), Q(pwin, 1))
            /\ QLeq(QDist(fitmax[i][2], Q(max[i][2], 1)), Q(pwin, 1))

\* the offsets k in [-p, p] as a sequence
WindowOffsets == [k \in 1..(2 * pwin + 1) |-> k - pwin - 1]
\* sum over k of (x0+k)*conv[x0+k, y0] divided by the sum over k of conv[x0+k, y0]
RowCentroid(x0, y0) ==
    QDiv(SumFrom([k \in 1..Len(WindowOffsets) |->
                     QMul(Q(x0 + WindowOffsets[k], 1), Val(conv, <<x0 + WindowOffsets[k], y0>>))], 1),
         SumFrom([k \in 1..Len(WindowOffsets) |-> Val(conv, <<x0 + WindowOffsets[k], y0>>)], 1))
\* the same along row x0
ColCentroid(x0, y0) ==
    QDiv(SumFrom([k \in 1..Len(WindowOffsets) |->
                     QMul(Q(y0 + WindowOffsets[k], 1), Val(conv, <<x0, y0 + WindowOffsets[k]>>))], 1),
         SumFrom([k \in 1..Len(WindowOffsets) |-> Val(conv, <<x0, y0 + WindowOffsets[k]>>)], 1))

\* C18: for each candidate peak (x0, y0) the refined row coordinate is the sum
\* over k in [-p, p] of (x0+k)*conv[x0+k, y0] divided by the sum over the same k
\* of conv[x0+k, y0], and the refined column coordinate is computed in the same
\* way along row x0; each axis uses only its own 1-D slice through the peak.
C18_CentroidFormula ==
    pc = "line527" =>
        \A i \in 1..Len(max) :
            /\ fitmax[i][1] = RowCentroid(max[i][1], max[i][2])
            /\ fitmax[i][2] = ColCentroid(max[i][1], max[i][2])

\* a refined peak that left its pixel on both axes, by different amounts
C18_Witness ==
    /\ pc = "line527"
    /\ \E i \in 1..Len(max) :
          /\ IsFinite(fitmax[i][1]) /\ IsFinite(fitmax[i][2])
          /\ fitmax[i][1] # Q(max[i][1], 1)
          /\ fitmax[i][2] # Q(max[i][2], 1)
          /\ QSub(fitmax[i][1], Q(max[i][1], 1)) # QSub(fitmax[i][2], Q(max[i][2], 1))

\* C19: in every invocation the number of refined peaks returned does not
\* exceed the number of candidate peaks found by peak detection.
C19_RefinedAtMostCandidates ==
    pc = "line527" => Len(fitmax) <= Len(max)

\* an invocation that returned several refined peaks
C19_Witness ==
    /\ pc = "line527"
    /\ Len(max) >= 2
    /\ Len(fitmax) = Len(max)

C12_CorrelateLinear ==
    pc \in {"lin513", "lin514"} => convAB = GridPlus(conv, convB)

\* C12 (amended): before the post-step the correlation is linear in the image:
\* the map of a + b equals the map of a plus the map of b cell by cell.
C12_ConvolveLinear ==
    pc = "lin513" =>
        \A q \in Cells(convAB) : convAB[q[1]][q[2]] = QAdd(conv[q[1]][q[2]], convB[q[1]][q[2]])

\* two different non-zero maps whose sum is neither of them
C12_Witness ==
    /\ pc = "lin513"
    /\ HasCell(conv, IsPositive) /\ HasCell(convB, IsNegative)
    /\ conv # convB /\ convAB # conv /\ convAB # convB
    /\ HasCell(convAB, IsPositive)

(***************************************************************************)
(* Further claims about the kernel builders (checked under SpecKernel)     *)
(***************************************************************************)
\* the indices on the outermost rows and columns of a K x K grid
BorderIndices(K) ==
    {q \in (0..(K - 1)) \X (0..(K - 1)) :
        q[1] \in {0, K - 1} \/ q[2] \in {0, K - 1}}
\* (i-c)^2 + (j-c)^2 >= R^2 for c = (K-1)/2, in integers
NotInsideRadius(K, i, j) == R.d * R.d * FourDist2(K, i, j) >= 4 * R.n * R.n

\* C25: for every R > 0 (and any w) every cell on the outermost rows and
\* columns of the grid built by disckernel(R) or circkernel(R, w) is outside the
\* disk or ring: it is at least R from the centre and holds the kernel's
\* outside value, which is not positive.
C25_BlankBorder ==
    KernelBuilt /\ ValidR =>
        \A q \in BorderIndices(NRows(TheKernel)) :
            /\ NotInsideRadius(NRows(TheKernel), q[1], q[2])
            /\ QLeq(TheKernel[q[1] + 1][q[2] + 1], Zero)

\* a disk kernel with a border cell exactly R from the centre, and cells inside
C25_Witness ==
    /\ pc = "disckernel" /\ exc = "none" /\ ValidR
    /\ HasCell(dkern, IsPositive)
    /\ \E q \in BorderIndices(NRows(dkern)) :
          R.d * R.d * FourDist2(NRows(dkern), q[1], q[2]) = 4 * R.n * R.n

(***************************************************************************)
(* Further claims about cell 15 (checked under SpecNorm)                   *)
(***************************************************************************)
\* image - erodedimage for the loaded image
TheEdgeImage == EdgeImage(ToFloat(img))

\* C30: the edge-emphasis image, the image minus its morphological erosion, is
\* non-negative at every pixel for every input image.
C30_EdgeNonNegative ==
    pc = "cell15" => \A q \in Cells(TheEdgeImage) : QLeq(Zero, TheEdgeImage[q[1]][q[2]])

\* an edge image with a rim (positive cells) and a flat part (zero cells), from
\* an image with three grey levels
C30_Witness ==
    /\ pc = "cell15"
    /\ HasCell(TheEdgeImage, IsPositive)
    /\ \E q \in Cells(TheEdgeImage) : TheEdgeImage[q[1]][q[2]] = Zero
    /\ \E q, r \in Cells(img) : img[q[1]][q[2]] < img[r[1]][r[2]] /\ img[r[1]][r[2]] < MaxPix

(***************************************************************************)
(* Claims about Day 2 (checked under SpecDay2)                             *)
(***************************************************************************)
\* the sum of the pixels of an integer image
RECURSIVE IntSum(_)
IntSum(row) == IF Len(row) = 0 THEN 0 ELSE row[1] + IntSum(Tail(row))
PixelSum(g) == IntSum([i \in 1..NRows(g) |-> IntSum(g[i])])

\* C26: the thresholding step produces a mask that is true at exactly the
\* pixels whose intensity is above the image mean.
C26_AboveMean ==
    pc = "day2cell30" =>
        \A q \in Cells(img) :
            threshold[q[1]][q[2]] = (img[q[1]][q[2]] * Size(img) > PixelSum(img))

(***************************************************************************)
(* Further claims about convcirc (checked under Spec)                      *)
(***************************************************************************)
\* C27: in the refining convcirc, for every peak (x0, y0) returned by peak
\* detection with min_distance = ceil(R) >= 2, the rows x0-2..x0+2 and the
\* columns y0-2..y0+2 all lie inside the correlation map, both refinement
\* slices have the full 5 elements, and the refinement raises nothing.
C27_WindowsInside ==
    pc \in {"line515", "line527", "raised"} /\ MinDistance(R) >= 2 =>
        /\ pc # "raised" /\ exc = "none"
        /\ \A i \in 1..Len(max) :
              /\ max[i][1] - 2 >= 0 /\ max[i][1] + 2 <= NRows(conv) - 1
              /\ max[i][2] - 2 >= 0 /\ max[i][2] + 2 <= NCols(conv) - 1
              /\ Len(PySlice(Column(conv, max[i][2]), max[i][1] - 2, max[i][1] + 3)) = 5
              /\ Len(PySlice(Row(conv, max[i][1]), max[i][2] - 2, max[i][2] + 3)) = 5

\* a refined peak whose window starts on the first row of the map
C27_Witness ==
    /\ pc = "line527"
    /\ MinDistance(R) >= 2
    /\ \E i \in 1..Len(max) : max[i][1] = 2 /\ IsFinite(fitmax[i][1])

\* the map's maximum is positive and is attained farther than ceil(R) pixels
\* from every border
PositiveInteriorMax ==
    /\ QLess(Zero, GridMax(conv))
    /\ \E q \in Indices(conv) :
          /\ Val(conv, q) = GridMax(conv)
          /\ q[1] > MinDistance(R) /\ NRows(conv) - 1 - q[1] > MinDistance(R)
          /\ q[2] > MinDistance(R) /\ NCols(conv) - 1 - q[2] > MinDistance(R)

\* thresholds below 1 other than those the detector is run with: a negative
\* one, zero, and one just under 1
BelowOneT == {Q(-1, 2), Zero, Q(99, 100)}

C22_ImageUnchanged ==
    [][/\ pc \in {"cell15", "line512", "line513", "line514", "line515"} => image' = image
       /\ img' = img]_vars

\* after a whole invocation that refined a peak, the caller's image is still
\* the normalised edge image and the loaded image still holds its pixels
C22_Witness ==
    /\ pc = "line527"
    /\ Len(fitmax) >= 1
    /\ img \in PipeImages
    /\ image = Normalise(EdgeImage(ToFloat(img)))
    /\ image # ToFloat(img)

(***************************************************************************)
(* The Day 3 notebook run cell by cell: cell 15 and the cells that define  *)
(* or call convcirc (19, 20, 22, 24, 26, 27, 30)                           *)
(***************************************************************************)
\* np.min of a grid
QMin(a, b) == IF IsNaN(a) \/ IsNaN(b) THEN NaN ELSE IF QLess(b, a) THEN b ELSE a
RECURSIVE SeqMin(_)
SeqMin(s) == IF Len(s) = 1 THEN s[1] ELSE QMin(s[1], SeqMin(Tail(s)))
GridMin(g) == SeqMin([i \in 1..NRows(g) |-> SeqMin(g[i])])

\* peak_local_max(conv, min_distance=...) without threshold_abs: the threshold
\* is image.min()
PeakLocalMaxNoThreshold(g, md) == PeakLocalMax(g, md, GridMin(g))

\* In the operators below, CHOOSE v \in {F(y) : y \in {x}} : TRUE is F(x)
\* with x computed once, as Python computes the value of a local name once
\* when it is assigned.

\* lines 2-3 of each definition of convcirc: the map divided by its maximum
\*     conv = ndimage.convolve(image, ckern, mode='constant', cval=0.0)
\*     conv = conv/np.max(conv)
NormalisedMap(im, ck) ==
    CHOOSE v \in {GridOver(c1[1], c1[2]) :
                     c1 \in {<<c, GridMax(c)>> :
                                c \in {Convolve(im, k) : k \in {ck}}}} : TRUE

\* cell 19: def convcirc(image, R, w), the value it returns or the exception
Convcirc3(im, r, wd) ==
    LET Body(ret) ==
            IF ret.exc # "none" THEN [exc |-> ret.exc, val |-> <<>>]
            ELSE [exc |-> "none",
                  val |-> CHOOSE v \in {PeakLocalMaxNoThreshold(c2, MinDistance(r)) :
                                           c2 \in {NormalisedMap(im, ret.kernel)}} : TRUE]
    IN  CHOOSE v \in {Body(ret) : ret \in {circkernel(r, wd)}} : TRUE

\* cell 26: def convcirc(image, R, w, thresh)
Convcirc4(im, r, wd, t) ==
    LET Body(ret) ==
            IF ret.exc # "none" THEN [exc |-> ret.exc, val |-> <<>>]
            ELSE [exc |-> "none",
                  val |-> CHOOSE v \in {PeakLocalMax(c2, MinDistance(r), t) :
                                           c2 \in {NormalisedMap(im, ret.kernel)}} : TRUE]
    IN  CHOOSE v \in {Body(ret) : ret \in {circkernel(r, wd)}} : TRUE

\* lines 516-527 on the map c2 and the peaks mx
FitPeaks(c2, mx) ==
    LET Result(rs) ==
            IF LoopRaises(rs) THEN [exc |-> "ValueError", val |-> <<>>]
            ELSE [exc |-> "none",
                  val |-> [i \in 1..Len(mx) |-> <<rs[i].x, rs[i].y>>]]
    IN  CHOOSE v \in {Result(rs) : rs \in {[i \in 1..Len(mx) |-> Refine(c2, mx[i])]}} : TRUE

\* variant: convcirc refines the peaks held by the notebook's global `max`
\* instead of those it has just found
ConvcircFitGlobalMax(im, r, wd, t) ==
    LET Body(ret) ==
            IF ret.exc # "none" THEN [exc |-> ret.exc, val |-> <<>>]
            ELSE CHOOSE v \in {FitPeaks(c2, max) :
                                  c2 \in {NormalisedMap(im, ret.kernel)}} : TRUE
    IN  CHOOSE v \in {Body(ret) : ret \in {circkernel(r, wd)}} : TRUE
\* cell 30: def convcirc(image, R, w, thresh) with the refinement, lines 511-527
ConvcircFit(im, r, wd, t) ==
    LET OnMap(c2) ==
            CHOOSE v \in {FitPeaks(c2, mx) :
                             mx \in {PeakLocalMax(c2, MinDistance(r), t)}} : TRUE
        Body(ret) ==
            IF ret.exc # "none" THEN [exc |-> ret.exc, val |-> <<>>]
            ELSE CHOOSE v \in {OnMap(c2) : c2 \in {NormalisedMap(im, ret.kernel)}} : TRUE
    IN  CHOOSE v \in {Body(ret) : ret \in {circkernel(r, wd)}} : TRUE

\* the number of positional parameters of each definition of convcirc
Arity(def) == IF def = "cell19" THEN 3 ELSE IF def \in {"cell26", "cell30"} THEN 4 ELSE 0

\* variant: a call with a missing argument runs with thresh = 0
CallOfLenient(def, nargs, im, r, wd, t) ==
    IF def = "none" THEN [exc |-> "NameError", val |-> <<>>]
    ELSE IF def = "cell19" THEN Convcirc3(im, r, wd)
    ELSE IF def = "cell26" THEN Convcirc4(im, r, wd, t)
    ELSE ConvcircFit(im, r, wd, t)
\* convcirc(...) with nargs positional arguments while the name is bound to
\* `def`: Python raises TypeError before the body runs when the count differs
CallOf(def, nargs, im, r, wd, t) ==
    IF def = "none" THEN [exc |-> "NameError", val |-> <<>>]
    ELSE IF Arity(def) # nargs THEN [exc |-> "TypeError", val |-> <<>>]
    ELSE IF def = "cell19" THEN Convcirc3(im, r, wd)
    ELSE IF def = "cell26" THEN Convcirc4(im, r, wd, t)
    ELSE ConvcircFit(im, r, wd, t)

\* the notebook's arguments, scaled to the model's image size: Rs = 19.5,
\* Rl = 29.0, R = 20.0 (cell 24), w = 1.5, thresh = 0.55 and
\* np.arange(16., 34., 0.2)
RSmall == Q(3, 2)
RLarge == Q(5, 2)
RInline == Q(2, 1)
WRing == Q(3, 2)
TNb == Q(11, 20)
SweepStart == Q(3, 2)
SweepStop == Q(3, 1)
SweepStep == Q(1, 2)

\* np.arange(start, stop, step)
Arange(start, stop, step) ==
    [i \in 1..Ceil(QDiv(QSub(stop, start), step)) |-> QAdd(start, QMul(Q(i - 1, 1), step))]

\* max.size: the number of elements of the N x 2 array of peaks
ArraySize(peaks) == Len(peaks) * 2

\* x - np.floor(x)
Remainder(a) == IF IsFinite(a) THEN QSub(a, Q(a.n \div a.d, 1)) ELSE NaN

\* np.reshape(np.concatenate([a, b]), b.size + a.size)
Flatten(a, b) ==
    LET ab == a \o b
    IN  [k \in 1..(2 * Len(ab)) |-> ab[(k + 1) \div 2][2 - (k % 2)]]

\* cell k is run: either the next cell from the top, or one run before (at
\* most MaxReruns times in all)
RunCell(k, label) ==
    /\ k = lastCell + 1 \/ (k <= lastCell /\ reruns < MaxReruns)
    /\ lastCell' = IF k > lastCell THEN k ELSE lastCell
    /\ reruns' = IF k > lastCell THEN reruns ELSE reruns + 1
    /\ pc' = label

\* the images the notebook is run on: the centre pixel differs from the rest
\* (a bright spot on black, a dark spot on white)
NbImages ==
    LET c == (ImgDim + 1) \div 2
    IN  {[i \in 1..ImgDim |-> [j \in 1..ImgDim |-> IF <<i, j>> = <<c, c>> THEN v1 ELSE MaxPix - v1]] :
            v1 \in {0, MaxPix}}

InitNb ==
    /\ pc = "start"
    /\ img \in NbImages
    /\ image = NoGrid /\ conv = NoGrid
    /\ R = Zero /\ w = Zero
    /\ dkern = NoGrid /\ dx = Zero
    /\ ckern = NoGrid /\ cx = Zero
    /\ exc = "none"
    /\ NoPeaks /\ NoLin /\ threshold = NoGrid /\ NoNb

\* cell 15: read the image, subtract its erosion, set zero mean and max = 1
NbCell15 ==
    /\ RunCell(1, "cell15")
    /\ image' = Normalise(EdgeImage(ToFloat(img)))
    /\ exc' = "none"
    /\ UNCHANGED <<img, R, w, dkern, dx, ckern, cx, conv, peakVars, linVars, threshold,
                   convcircDef, Rvals, numfound, peak, maxS, maxL, fitmaxS, fitmaxL, remainders>>

\* cell 19: def convcirc(image, R, w)
NbCell19 ==
    /\ RunCell(2, "cell19")
    /\ convcircDef' = "cell19"
    /\ exc' = "none"
    /\ UNCHANGED <<img, image, R, w, dkern, dx, ckern, cx, conv, peakVars, linVars, threshold,
                   Rvals, numfound, peak, maxS, maxL, fitmaxS, fitmaxL, remainders>>

\* the two calls of cells 20 and 27: w=1.5; Rs = 19.5; maxS = convcirc(...);
\* Rl = 29.0; maxL = convcirc(...), with nargs arguments each
TwoCalls(nargs) ==
    \E a \in {CallOf(convcircDef, nargs, image, RSmall, WRing, TNb)},
       b \in {CallOf(convcircDef, nargs, image, RLarge, WRing, TNb)} :
        /\ w' = WRing
        /\ maxS' = IF a.exc = "none" THEN a.val ELSE maxS
        /\ maxL' = IF a.exc = "none" /\ b.exc = "none" THEN b.val ELSE maxL
        /\ exc' = IF a.exc # "none" THEN a.exc ELSE b.exc

\* cell 20: maxS = convcirc(image, Rs, w); maxL = convcirc(image, Rl, w)
NbCell20 ==
    /\ RunCell(3, "cell20")
    /\ TwoCalls(3)
    /\ UNCHANGED <<img, image, R, dkern, dx, ckern, cx, conv, peakVars, linVars, threshold,
                   convcircDef, Rvals, numfound, peak, fitmaxS, fitmaxL, remainders>>

\* cell 22: the radius sweep; a call that raises ends the loop and the cell
NbCell22 ==
    /\ RunCell(4, "cell22")
    /\ \E rv \in {Arange(SweepStart, SweepStop, SweepStep)} :
       \E res \in {[i \in 1..Len(rv) |-> CallOf(convcircDef, 3, image, rv[i], WRing, Zero)]} :
       LET bad == {i \in 1..Len(rv) : res[i].exc # "none"}
           stop == IF bad = {} THEN Len(rv) + 1 ELSE CHOOSE i \in bad : \A j \in bad : i <= j
       IN  /\ Rvals' = rv
           /\ w' = WRing
           /\ numfound' = [i \in 1..Len(rv) |-> IF i < stop THEN ArraySize(res[i].val) ELSE 0]
           /\ max' = IF stop = 1 THEN max ELSE res[stop - 1].val
           /\ exc' = IF bad = {} THEN "none" ELSE res[stop].exc
    /\ UNCHANGED <<img, image, R, dkern, dx, ckern, cx, conv, thresh, fitmax, linVars, threshold,
                   convcircDef, peak, maxS, maxL, fitmaxS, fitmaxL, remainders>>

\* cell 24: the detector inline for R = 20.0, and the map's value at each peak
\* (the kernel's centre is bound to the name x, which no cell reads)
NbCell24 ==
    /\ RunCell(5, "cell24")
    /\ \E ret \in {circkernel(RInline, WRing)} :
       \E c2 \in {NormalisedMap(image, ret.kernel)} :
       \E mx \in {PeakLocalMaxNoThreshold(c2, MinDistance(RInline))} :
           /\ R' = RInline /\ w' = WRing
           /\ ckern' = ret.kernel
           /\ conv' = c2
           /\ max' = mx
           /\ peak' = [i \in 1..Len(mx) |-> Val(c2, mx[i])]
           /\ exc' = "none"
    /\ UNCHANGED <<img, image, dkern, dx, cx, thresh, fitmax, linVars, threshold,
                   convcircDef, Rvals, numfound, maxS, maxL, fitmaxS, fitmaxL, remainders>>

\* cell 26: def convcirc(image, R, w, thresh); max = convcirc(image, 19.5, 1.5, 0.55)
NbCell26 ==
    /\ RunCell(6, "cell26")
    /\ convcircDef' = "cell26"
    /\ \E a \in {CallOf("cell26", 4, image, RSmall, WRing, TNb)} :
           /\ max' = IF a.exc = "none" THEN a.val ELSE max
           /\ exc' = a.exc
    /\ UNCHANGED <<img, image, R, w, dkern, dx, ckern, cx, conv, thresh, fitmax, linVars, threshold,
                   Rvals, numfound, peak, maxS, maxL, fitmaxS, fitmaxL, remainders>>

\* cell 27: maxS = convcirc(image, Rs, w, 0.55); maxL = convcirc(image, Rl, w, 0.55)
NbCell27 ==
    /\ RunCell(7, "cell27")
    /\ TwoCalls(4)
    /\ UNCHANGED <<img, image, R, dkern, dx, ckern, cx, conv, peakVars, linVars, threshold,
                   convcircDef, Rvals, numfound, peak, fitmaxS, fitmaxL, remainders>>

\* cell 30: the refining def convcirc(image, R, w, thresh); fitmaxS = convcirc(...);
\* fitmaxL = convcirc(...); allmax; remainders = allmax - np.floor(allmax)
NbCell30 ==
    /\ RunCell(8, "cell30")
    /\ convcircDef' = "cell30"
    /\ \E a \in {CallOf("cell30", 4, image, RSmall, WRing, TNb)},
          b \in {CallOf("cell30", 4, image, RLarge, WRing, TNb)} :
       LET ok == a.exc = "none" /\ b.exc = "none"
       IN  /\ fitmaxS' = IF a.exc = "none" THEN a.val ELSE fitmaxS
           /\ fitmaxL' = IF ok THEN b.val ELSE fitmaxL
           /\ remainders' = IF ok THEN LET allmax == Flatten(a.val, b.val)
                                       IN  [k \in 1..Len(allmax) |-> Remainder(allmax[k])]
                            ELSE remainders
           /\ exc' = IF a.exc # "none" THEN a.exc ELSE b.exc
    /\ UNCHANGED <<img, image, R, w, dkern, dx, ckern, cx, conv, peakVars, linVars, threshold,
                   Rvals, numfound, peak, maxS, maxL>>

NextNb ==
    \/ NbCell15 \/ NbCell19 \/ NbCell20 \/ NbCell22
    \/ NbCell24 \/ NbCell26 \/ NbCell27 \/ NbCell30
SpecNb == InitNb /\ [][NextNb]_vars

\* C24: after the radius sweep of cell 22 has run to its end, for each radius
\* Rvals[i] the recorded value numfound[i] equals the number of circles
\* (peaks) convcirc detects at that radius.
C24_NumfoundIsCount ==
    pc = "cell22" /\ exc = "none" =>
        \A i \in 1..Len(Rvals) :
            numfound[i] = Len(Convcirc3(image, Rvals[i], w).val)

\* C29: while the cells are run from top to bottom, no call of convcirc fails
\* on its number of arguments (three-argument calls meet the definition of
\* cell 19, four-argument calls those of cells 26 and 30); once a
\* four-argument definition is bound, running a three-argument call (cell 20
\* or the radius sweep of cell 22) ends in TypeError and returns no peaks:
\* max, maxS and maxL keep their values and the sweep records nothing.
C29_ArityFollowsCellOrder ==
    [][/\ reruns' = 0 => exc' \notin {"TypeError", "NameError"}
       /\ pc' \in {"cell20", "cell22"} /\ Arity(convcircDef) = 4 =>
             /\ exc' = "TypeError"
             /\ max' = max /\ maxS' = maxS /\ maxL' = maxL
             /\ pc' = "cell22" => \A i \in 1..Len(numfound') : numfound'[i] = 0]_vars

\* the whole notebook was run, then the radius sweep again
C29_Witness ==
    /\ pc = "cell22" /\ lastCell = 8
    /\ convcircDef = "cell30"
    /\ exc = "TypeError"
    /\ Len(numfound) = 3 /\ \A i \in 1..Len(numfound) : numfound[i] = 0
    /\ Len(maxS) >= 1

====
